---- MODULE Spec2Model ----
(***************************************************************************)
(* Model of src/app.py: a Streamlit form that builds a business e-mail     *)
(* with an LLM.  Text is modelled as a sequence of characters so that      *)
(* strip, splitlines, startswith, replace and join are computed as Python  *)
(* computes them.                                                          *)
(*                                                                         *)
(* Characters.  The Japanese marker characters are written with ASCII      *)
(* stand-ins, one stand-in per source character:                           *)
(*   "K" = U+4EF6 (ken), "M" = U+540D (mei)   -> "KM" is the word subject  *)
(*   "H" = U+672C (hon), "B" = U+6587 (bun)   -> "HB" is the word body     *)
(*   "Z" = U+FF1A, the full-width colon;  ":" = the ASCII colon            *)
(*   "P" = the whole placeholder subject literal of parse_output           *)
(***************************************************************************)
EXTENDS Integers, Sequences, FiniteSets, TLC

VARIABLES
    session_state,    \* st.session_state: key -> value, only for the keys present
    api_key,          \* TRUE iff os.getenv("OPENAI_API_KEY") is set and non-empty
    phase,            \* "idle": page rendered, waiting for the user; "rerun": a callback has run, the script run is pending
    last_action,      \* the interaction that ran last: an edit or a button callback
    outcome,          \* how that callback ended
    gateway_invoked,  \* TRUE iff that callback reached call_llm
    output,           \* <<reply>> for the text call_llm returned to that callback, <<>> when it returned none
    text,             \* argument of the pure function under check
    result,           \* value the pure function returned
    pc                \* "start" before the pure function is applied, "done" after

vars == <<session_state, api_key, phase, last_action, outcome, gateway_invoked,
          output, text, result, pc>>

(***************************************************************************)
(* Bounds of the model                                                     *)
(***************************************************************************)
MaxPieces == 3        \* a gateway reply under check is made of at most this many pieces
MaxChars == 5         \* a text given to normalize_bullets has at most this many characters
MaxPad == 2           \* at most this many blanks on each side of a required-info text

(***************************************************************************)
(* Python string primitives                                                *)
(***************************************************************************)
Min(S) == CHOOSE x \in S : \A y \in S : x <= y
Max(S) == CHOOSE x \in S : \A y \in S : x >= y

\* characters str.strip() removes and, for "\n", str.splitlines() splits at
IsSpace(c) == c \in {" ", "\n"}

strip(s) ==
    IF \A i \in 1..Len(s) : IsSpace(s[i]) THEN <<>>
    ELSE LET first == CHOOSE i \in 1..Len(s) :
                        ~IsSpace(s[i]) /\ \A j \in 1..(i - 1) : IsSpace(s[j])
             last == CHOOSE i \in 1..Len(s) :
                        ~IsSpace(s[i]) /\ \A j \in (i + 1)..Len(s) : IsSpace(s[j])
         IN  SubSeq(s, first, last)

RECURSIVE splitlines(_)
splitlines(s) ==
    IF s = <<>> THEN <<>>
    ELSE LET nl == {i \in 1..Len(s) : s[i] = "\n"}
         IN  IF nl = {} THEN <<s>>
             ELSE <<SubSeq(s, 1, Min(nl) - 1)>> \o splitlines(SubSeq(s, Min(nl) + 1, Len(s)))

RECURSIVE join(_)
join(lines) ==
    IF lines = <<>> THEN <<>>
    ELSE IF Len(lines) = 1 THEN lines[1]
    ELSE lines[1] \o <<"\n">> \o join(Tail(lines))

startswith(s, p) == Len(s) >= Len(p) /\ SubSeq(s, 1, Len(p)) = p

\* s.replace(p, "", 1): the first occurrence of p is removed
replace_first(s, p) ==
    LET occ == {i \in 1..(Len(s) - Len(p) + 1) : SubSeq(s, i, i + Len(p) - 1) = p}
    IN  IF occ = {} \/ p = <<>> THEN s
        ELSE SubSeq(s, 1, Min(occ) - 1) \o SubSeq(s, Min(occ) + Len(p), Len(s))

striplines(s) == [i \in 1..Len(splitlines(s)) |-> strip(splitlines(s)[i])]

(***************************************************************************)
(* Program constants                                                       *)
(***************************************************************************)
RELATIONSHIPS == <<"torihikisaki", "shanai_joshi", "shanai_doryo", "okyakusama">>
PURPOSES == <<"irai", "orei", "shazai", "nittei_chosei", "shitsumon", "hokoku">>
TONES == <<"teinei", "futsu", "casual">>

MinRequiredInfo == 10
MaxRequiredInfo == 4000

subject_prefixes == << <<"K", "M", "Z">>, <<"K", "M", ":">> >>
body_prefixes == << <<"H", "B", "Z">>, <<"H", "B", ":">> >>
Placeholder == <<"P">>

(***************************************************************************)
(* validate_inputs: the kind of the warning, or "ok" where the code        *)
(* returns True                                                            *)
(***************************************************************************)
validate_inputs(required_info) ==
    IF strip(required_info) = <<>> THEN "Empty"
    ELSE IF Len(required_info) < MinRequiredInfo THEN "TooShort"
    ELSE IF Len(required_info) > MaxRequiredInfo THEN "TooLong"
    ELSE "ok"

(***************************************************************************)
(* normalize_bullets                                                       *)
(***************************************************************************)
\* as bullet, but a line is taken as bulleted when it starts with "-" alone
bullet_dash_only(line) == IF startswith(line, <<"-">>) THEN line ELSE <<"-", " ">> \o line

bullet(line) == IF startswith(line, <<"-", " ">>) THEN line ELSE <<"-", " ">> \o line

RECURSIVE normalized(_)
normalized(lines) ==
    IF lines = <<>> THEN <<>>
    ELSE IF Head(lines) = <<>> THEN normalized(Tail(lines))
    ELSE <<bullet(Head(lines))>> \o normalized(Tail(lines))

normalize_bullets(t) == join(normalized(striplines(t)))

(***************************************************************************)
(* parse_output                                                            *)
(***************************************************************************)
startswith_any(line, prefixes) == \E k \in 1..Len(prefixes) : startswith(line, prefixes[k])

\* the first prefix of the tuple the line starts with (the inner for ... break)
matching_prefix(line, prefixes) ==
    prefixes[Min({k \in 1..Len(prefixes) : startswith(line, prefixes[k])})]

\* the for loop of parse_output from index idx on, with the subject found so far
RECURSIVE parse_scan(_, _, _)
parse_scan(lines, idx, subject) ==
    IF idx > Len(lines) THEN [subject |-> subject, body |-> <<>>]
    ELSE IF startswith_any(lines[idx], subject_prefixes)
         THEN parse_scan(lines, idx + 1,
                         strip(replace_first(lines[idx], matching_prefix(lines[idx], subject_prefixes))))
    ELSE IF startswith_any(lines[idx], body_prefixes)
         THEN [subject |-> subject, body |-> strip(join(SubSeq(lines, idx + 1, Len(lines))))]
    ELSE parse_scan(lines, idx + 1, subject)

\* as parse_output, without the fallback to the whole text when no body was found
parse_output_no_body_fallback(t) ==
    LET found == parse_scan(striplines(t), 1, <<>>)
    IN  IF found.subject = <<>> THEN [subject |-> Placeholder, body |-> strip(t)]
        ELSE [subject |-> found.subject, body |-> found.body]

\* as parse_output, without the placeholder when no subject was found
parse_output_no_placeholder(t) ==
    LET found == parse_scan(striplines(t), 1, <<>>)
    IN  IF found.subject = <<>> THEN [subject |-> <<>>, body |-> strip(t)]
        ELSE IF found.body = <<>> THEN [subject |-> found.subject, body |-> strip(t)]
        ELSE [subject |-> found.subject, body |-> found.body]

parse_output(t) ==
    LET found == parse_scan(striplines(t), 1, <<>>)
    IN  IF found.subject = <<>> THEN [subject |-> Placeholder, body |-> strip(t)]
        ELSE IF found.body = <<>> THEN [subject |-> found.subject, body |-> strip(t)]
        ELSE [subject |-> found.subject, body |-> found.body]

(***************************************************************************)
(* Inputs of the model                                                     *)
(***************************************************************************)
Repeat(c, n) == [i \in 1..n |-> c]

\* l blanks, n letters, r blanks
Padded(l, n, r) == Repeat(" ", l) \o Repeat("a", n) \o Repeat(" ", r)

\* what the user types into the required-info area
RequiredInfos ==
    {Padded(0, 0, 0), Padded(1, 0, 1), Padded(0, 3, 0), Padded(0, 3, 7),
     Padded(0, MinRequiredInfo, 0)}

\* what the user types into the signature, subject and body widgets
Signatures == {<<>>, <<"s">>}
UserTexts == {<<>>, <<" ">>, <<"a">>}

\* what the model service answers
WellFormedReply == <<"K", "M", "Z", "a", "\n", "H", "B", "Z", "\n", "b">>
NoMarkerReply == <<"b">>
EmptySubjectReply == <<"K", "M", "Z", "\n", "H", "B", "Z", "\n", "b">>
NoBodyReply == <<"K", "M", ":", "a">>
GatewayReplies ==
    {WellFormedReply, NoMarkerReply, EmptySubjectReply, NoBodyReply, <<>>, <<" ">>}

\* call_llm either raises or returns response.content
GatewayResponses ==
    {[raised |-> TRUE, content |-> <<>>]}
        \cup {[raised |-> FALSE, content |-> r] : r \in GatewayReplies}

REWRITE_INSTRUCTIONS == {"motto_teinei_ni", "motto_mijikaku"}

(***************************************************************************)
(* The field store                                                         *)
(***************************************************************************)
Keys == {"relationship", "purpose", "tone", "required_info", "signature", "subject", "body"}

defaults ==
    [relationship |-> RELATIONSHIPS[1], purpose |-> PURPOSES[1], tone |-> TONES[1],
     required_info |-> <<>>, signature |-> <<>>, subject |-> <<>>, body |-> <<>>]

init_session_state(ss) ==
    [k \in (DOMAIN ss) \cup Keys |-> IF k \in DOMAIN ss THEN ss[k] ELSE defaults[k]]

\* as clear_keys, with "body" left out of the list
clear_keys_without_body ==
    {"relationship", "purpose", "tone", "required_info", "signature", "subject"}

\* the keys handle_clear deletes
clear_keys == {"relationship", "purpose", "tone", "required_info", "signature", "subject", "body"}

\* as generate_precheck, without the call of validate_inputs
generate_precheck_no_validation(key, ss) ==
    IF ~key THEN "MissingCredential" ELSE "call"

\* the early returns of handle_generate before the try block; "call" when none is taken
generate_precheck(key, ss) ==
    IF ~key THEN "MissingCredential"
    ELSE IF validate_inputs(ss["required_info"]) # "ok" THEN validate_inputs(ss["required_info"])
    ELSE "call"

\* as rewrite_precheck, with the body checked before the credential
rewrite_precheck_body_first(key, ss) ==
    IF strip(ss["body"]) = <<>> THEN "EmptyBody"
    ELSE IF ~key THEN "MissingCredential"
    ELSE "call"

\* the early returns of handle_rewrite before the try block; "call" when none is taken
rewrite_precheck(key, ss) ==
    IF ~key THEN "MissingCredential"
    ELSE IF strip(ss["body"]) = <<>> THEN "EmptyBody"
    ELSE "call"

\* the writes of handle_generate after a reply
store_generated(ss, parsed) ==
    [ss EXCEPT !["subject"] = parsed.subject, !["body"] = parsed.body]

\* the writes of handle_rewrite after a reply
store_rewritten(ss, parsed) ==
    [ss EXCEPT !["subject"] = IF parsed.subject # <<>> THEN parsed.subject ELSE @,
               !["body"] = parsed.body]

Pure == <<text, result, pc>>

TypeOK ==
    /\ DOMAIN session_state \subseteq Keys
    /\ api_key \in BOOLEAN
    /\ phase \in {"idle", "rerun"}
    /\ last_action \in {"none", "edit", "generate", "rewrite", "clear"}
    /\ gateway_invoked \in BOOLEAN

Init ==
    /\ session_state = init_session_state(<<>>)
    /\ api_key \in BOOLEAN
    /\ phase = "idle"
    /\ last_action = "none"
    /\ outcome = "none"
    /\ gateway_invoked = FALSE
    /\ output = <<>>
    /\ text = <<>>
    /\ result = <<>>
    /\ pc = "off"

\* a widget of render_inputs / render_outputs is changed; the script reruns
Edited(key, value) ==
    /\ phase = "idle"
    /\ session_state' = init_session_state([session_state EXCEPT ![key] = value])
    /\ last_action' = "edit"
    /\ outcome' = "none"
    /\ gateway_invoked' = FALSE
    /\ output' = <<>>
    /\ UNCHANGED <<api_key, phase, Pure>>

SelectRelationship == \E i \in 1..Len(RELATIONSHIPS) : Edited("relationship", RELATIONSHIPS[i])
SelectPurpose == \E i \in 1..Len(PURPOSES) : Edited("purpose", PURPOSES[i])
SelectTone == \E i \in 1..Len(TONES) : Edited("tone", TONES[i])
EditRequiredInfo == \E t \in RequiredInfos : Edited("required_info", t)
EditSignature == \E t \in Signatures : Edited("signature", t)
EditSubject == \E t \in UserTexts : Edited("subject", t)
EditBody == \E t \in UserTexts : Edited("body", t)

\* a button callback ends
Finish(action, ss, oc, invoked, out) ==
    /\ session_state' = ss
    /\ last_action' = action
    /\ outcome' = oc
    /\ gateway_invoked' = invoked
    /\ output' = out
    /\ phase' = "rerun"
    /\ UNCHANGED <<api_key, Pure>>

\* as handle_generate, with the old subject and body blanked before the call
handle_generate_blanks_first ==
    /\ phase = "idle"
    /\ LET pre == generate_precheck(api_key, session_state)
           blanked == [session_state EXCEPT !["subject"] = <<>>, !["body"] = <<>>]
       IN  IF pre # "call"
           THEN Finish("generate", session_state, pre, FALSE, <<>>)
           ELSE \E resp \in GatewayResponses :
                  IF resp.raised
                  THEN Finish("generate", blanked, "GatewayError", TRUE, <<>>)
                  ELSE Finish("generate",
                              store_generated(blanked, parse_output(resp.content)),
                              "ok", TRUE, <<resp.content>>)

handle_generate ==
    /\ phase = "idle"
    /\ LET pre == generate_precheck(api_key, session_state)
       IN  IF pre # "call"
           THEN Finish("generate", session_state, pre, FALSE, <<>>)
           ELSE \E resp \in GatewayResponses :
                  IF resp.raised
                  THEN Finish("generate", session_state, "GatewayError", TRUE, <<>>)
                  ELSE Finish("generate",
                              store_generated(session_state, parse_output(resp.content)),
                              "ok", TRUE, <<resp.content>>)

\* the rewrite buttons are rendered only when a subject or a body is present
handle_rewrite ==
    /\ phase = "idle"
    /\ session_state["subject"] # <<>> \/ session_state["body"] # <<>>
    /\ \E instruction \in REWRITE_INSTRUCTIONS :
         LET pre == rewrite_precheck(api_key, session_state)
         IN  IF pre # "call"
             THEN Finish("rewrite", session_state, pre, FALSE, <<>>)
             ELSE \E resp \in GatewayResponses :
                    IF resp.raised
                    THEN Finish("rewrite", session_state, "GatewayError", TRUE, <<>>)
                    ELSE Finish("rewrite",
                                store_rewritten(session_state, parse_output(resp.content)),
                                "ok", TRUE, <<resp.content>>)

handle_clear ==
    /\ phase = "idle"
    /\ Finish("clear",
              [k \in (DOMAIN session_state) \ clear_keys |-> session_state[k]],
              "none", FALSE, <<>>)

\* the script run that follows a callback: main() calls init_session_state
main ==
    /\ phase = "rerun"
    /\ session_state' = init_session_state(session_state)
    /\ phase' = "idle"
    /\ UNCHANGED <<api_key, last_action, outcome, gateway_invoked, output, Pure>>

Next ==
    \/ SelectRelationship
    \/ SelectPurpose
    \/ SelectTone
    \/ EditRequiredInfo
    \/ EditSignature
    \/ EditSubject
    \/ EditBody
    \/ handle_generate
    \/ handle_rewrite
    \/ handle_clear
    \/ main

Spec == Init /\ [][Next]_vars

(***************************************************************************)
(* Specifications that apply one pure function to every input of a         *)
(* bounded set                                                             *)
(***************************************************************************)
RECURSIVE Concats(_, _)
Concats(pieces, n) ==
    IF n = 0 THEN {<<>>}
    ELSE Concats(pieces, n - 1) \cup {p \o t : p \in pieces, t \in Concats(pieces, n - 1)}

ReplyPieces ==
    { <<"K", "M", "Z", "a", "\n">>,      \* a subject line, full-width colon
      <<"K", "M", ":", " ", "b", "\n">>, \* a subject line, ASCII colon
      <<"K", "M", "Z", "\n">>,           \* a subject marker with nothing after it
      <<"H", "B", "Z", "\n">>,           \* a body marker line
      <<"H", "B", ":">>,                 \* a body marker, text may follow on its line
      <<"K", "M">>,                      \* the word subject without a colon
      <<"a">>,
      <<"b", "\n">>,
      <<" ">>,
      <<"\n">> }

Replies == Concats(ReplyPieces, MaxPieces)

BulletChars == {"-", " ", "\n", "a"}
BulletTexts == UNION {[1..n -> BulletChars] : n \in 0..MaxChars}

CoreLengths ==
    0..(MinRequiredInfo + 1) \cup (MaxRequiredInfo - 2 * MaxPad - 1)..(MaxRequiredInfo + 1)
ValidatorTexts == {Padded(l, n, r) : l \in 0..MaxPad, n \in CoreLengths, r \in 0..MaxPad}

InitPure(inputs) ==
    /\ session_state = init_session_state(<<>>)
    /\ api_key = FALSE
    /\ phase = "idle"
    /\ last_action = "none"
    /\ outcome = "none"
    /\ gateway_invoked = FALSE
    /\ output = <<>>
    /\ text \in inputs
    /\ result = <<>>
    /\ pc = "start"

Store == <<session_state, api_key, phase, last_action, outcome, gateway_invoked, output>>

apply_validate_inputs ==
    /\ pc = "start"
    /\ result' = validate_inputs(text)
    /\ pc' = "done"
    /\ UNCHANGED <<Store, text>>

apply_normalize_bullets ==
    /\ pc = "start"
    /\ result' = normalize_bullets(text)
    /\ pc' = "done"
    /\ UNCHANGED <<Store, text>>

apply_parse_output ==
    /\ pc = "start"
    /\ result' = parse_output(text)
    /\ pc' = "done"
    /\ UNCHANGED <<Store, text>>

InitValidate == InitPure(ValidatorTexts)
SpecValidate == InitValidate /\ [][apply_validate_inputs]_vars

InitNormalize == InitPure(BulletTexts)
SpecNormalize == InitNormalize /\ [][apply_normalize_bullets]_vars

InitParse == InitPure(Replies)
SpecParse == InitParse /\ [][apply_parse_output]_vars

(***************************************************************************)
(* Properties                                                              *)
(***************************************************************************)
\* a generate or rewrite callback has just run
CallbackStep(action) == phase = "idle" /\ phase' = "rerun" /\ last_action' = action

\* the reply has no line that starts with a subject marker and carries text after it
NoUsableSubject(raw) ==
    \A i \in 1..Len(striplines(raw)) :
        startswith_any(striplines(raw)[i], subject_prefixes)
            => strip(replace_first(striplines(raw)[i],
                                   matching_prefix(striplines(raw)[i], subject_prefixes))) = <<>>

\* C1: a successful rewrite whose reply has no usable subject leaves the stored
\* subject as it was before the action and overwrites the body with the parsed body.
C1_RewriteKeepsSubject ==
    [][(CallbackStep("rewrite") /\ outcome' = "ok" /\ NoUsableSubject(output'[1]))
          => /\ session_state'["subject"] = session_state["subject"]
             /\ session_state'["body"] = parse_output(output'[1]).body]_vars

\* the validator as section 4.1 of the specification states it
ValidatorRules(t) ==
    IF Len(strip(t)) = 0 THEN "Empty"
    ELSE IF Len(strip(t)) < MinRequiredInfo THEN "TooShort"
    ELSE IF Len(t) > MaxRequiredInfo THEN "TooLong"
    ELSE "ok"

\* C2: validate_inputs fails as Empty on a trimmed length of 0, as TooShort on a
\* trimmed length below 10, as TooLong on a raw length above 4000, and succeeds otherwise.
C2_ValidatorRules == pc = "done" => result = ValidatorRules(text)

\* C3: without a credential every generate and every rewrite ends as
\* MissingCredential and the gateway is not invoked, whatever the store holds.
C3_MissingCredential ==
    (~api_key /\ last_action \in {"generate", "rewrite"})
        => outcome = "MissingCredential" /\ ~gateway_invoked

C3_Witness ==
    /\ ~api_key
    /\ phase = "rerun"
    /\ last_action = "rewrite"
    /\ strip(session_state["body"]) = <<>>
    /\ outcome = "MissingCredential"

\* C4: a generate or rewrite that ends in an error leaves all seven fields of the
\* store with the values they had before the action.
C4_ErrorLeavesStore ==
    [][((CallbackStep("generate") \/ CallbackStep("rewrite")) /\ outcome' # "ok")
          => session_state' = session_state]_vars

C4_Witness ==
    /\ phase = "rerun"
    /\ last_action = "generate"
    /\ outcome = "GatewayError"
    /\ session_state["subject"] # <<>>
    /\ session_state["body"] # <<>>

\* C5 as stated: for every non-empty raw reply parse_output returns a non-empty body.
C5_BodyNonEmpty == (pc = "done" /\ text # <<>>) => result.body # <<>>

\* C5 amended: for every raw reply that is non-empty after trimming, parse_output
\* returns a non-empty body.
C5_BodyNonEmptyTrimmed == (pc = "done" /\ strip(text) # <<>>) => result.body # <<>>

\* a subject line, then a body marker with no text after it
C5_Witness ==
    /\ pc = "done"
    /\ text = <<"K", "M", "Z", "a", "\n", "H", "B", "Z", "\n">>
    /\ result.body = strip(text)

\* the parser as section 4.5 of the specification states it; a candidate that is
\* empty counts as not found, as sections 3 and 4.5 have it for the fallbacks
ReferenceParse(raw) ==
    LET lines == striplines(raw)
        subjectLines == {i \in 1..Len(lines) : startswith_any(lines[i], subject_prefixes)}
    IN  IF subjectLines = {} THEN [subject |-> Placeholder, body |-> strip(raw)]
        ELSE LET s == Min(subjectLines)
                 candidate == strip(replace_first(lines[s], matching_prefix(lines[s], subject_prefixes)))
                 bodyLines == {i \in s..Len(lines) : startswith_any(lines[i], body_prefixes)}
                 bodyCandidate ==
                     IF bodyLines = {} THEN <<>>
                     ELSE strip(join(SubSeq(lines, Min(bodyLines) + 1, Len(lines))))
             IN  IF candidate = <<>> THEN [subject |-> Placeholder, body |-> strip(raw)]
                 ELSE IF bodyCandidate = <<>> THEN [subject |-> candidate, body |-> strip(raw)]
                 ELSE [subject |-> candidate, body |-> bodyCandidate]

\* C6: parse_output returns what the reference parser returns: subject from the
\* first subject-marker line, body from the lines after the first body-marker line
\* found from there on, with the two fallbacks to the whole trimmed text.
C6_ReferenceParser == pc = "done" => result = ReferenceParse(text)

\* C7: normalize_bullets is idempotent, its output has no empty line and every
\* line of its output starts with "- ".
C7_NormalizeIdempotent ==
    pc = "done"
        => /\ normalize_bullets(result) = result
           /\ \A i \in 1..Len(splitlines(result)) :
                  /\ splitlines(result)[i] # <<>>
                  /\ startswith(splitlines(result)[i], <<"-", " ">>)

\* a padded line that is just "-" and a plain line
C7_Witness ==
    /\ pc = "done"
    /\ text = <<" ", "-", " ", "\n", "a">>
    /\ result = <<"-", " ", "-", "\n", "-", " ", "a">>

\* C8: the gateway is invoked by generate only when validate_inputs accepted the
\* required info and by rewrite only when the body trims to a non-empty text; a
\* validation or empty-body outcome never comes with a gateway call.
C8_GatewayGuarded ==
    [][/\ (CallbackStep("generate") /\ gateway_invoked')
            => validate_inputs(session_state["required_info"]) = "ok"
       /\ (CallbackStep("rewrite") /\ gateway_invoked')
            => strip(session_state["body"]) # <<>>
       /\ (phase' = "rerun" /\ outcome' \in {"Empty", "TooShort", "TooLong", "EmptyBody"})
            => ~gateway_invoked']_vars

C8_Witness ==
    /\ phase = "rerun"
    /\ last_action = "generate"
    /\ gateway_invoked
    /\ validate_inputs(session_state["required_info"]) = "ok"

\* C9: after clear-all and the init_session_state of the next script run every
\* field is at its default.
C9_ClearResets == (phase = "idle" /\ last_action = "clear") => session_state = defaults

C9_Witness ==
    /\ phase = "idle"
    /\ last_action = "clear"
    /\ session_state["relationship"] = RELATIONSHIPS[1]
    /\ session_state["body"] = <<>>

\* C10: parse_output never returns an empty subject, so right after a successful
\* generate or rewrite the stored subject is non-empty and is the parsed subject.
C10_SubjectNeverEmpty ==
    (phase = "rerun" /\ outcome = "ok")
        => /\ parse_output(output[1]).subject # <<>>
           /\ session_state["subject"] = parse_output(output[1]).subject
           /\ session_state["subject"] # <<>>

C10_Witness ==
    /\ phase = "rerun"
    /\ last_action = "rewrite"
    /\ outcome = "ok"
    /\ NoUsableSubject(output[1])
    /\ session_state["subject"] = Placeholder

====
